---- MODULE Spec2Model ----
(***************************************************************************)
(* Model of polyfile/expressions.py: the Tokenizer, the shunting-yard      *)
(* converter infix_to_rpn, and Expression.interpret.                       *)
(*                                                                         *)
(* Text is a sequence of one-character strings.  A Python object is a      *)
(* record whose field "type" names its class.                              *)
(***************************************************************************)
EXTENDS Integers, Sequences, FiniteSets, TLC

VARIABLES
    source,       \* the text handed to Tokenizer.__init__ / parse
    stream,       \* Tokenizer._stream: the characters not yet read
    buffer,       \* Tokenizer._buffer
    next_token,   \* Tokenizer._next_token
    prev_token,   \* Tokenizer.prev_token
    lastCall,     \* the latest Tokenizer call of the driver and what it returned
    out,          \* the tokens returned by next() so far
    operators,    \* infix_to_rpn: the operator stack
    rpn,          \* infix_to_rpn: the tokens yielded so far
    pstate,       \* "lexing", "parsing", "parsed", or the exception parse() raised
    tokens,       \* Expression.tokens (empty until pstate is "parsed")
    assignments,  \* interpret: the assignments argument
    values,       \* interpret: the value stack
    ip,           \* interpret: index of the next token of the for loop
    istate,       \* "idle", "running", "done"
    outcome,      \* what the last finished interpret call returned or raised
    previous      \* what the interpret call before it returned or raised

vars == <<source, stream, buffer, next_token, prev_token, lastCall,
          out, operators, rpn, pstate, tokens, assignments, values, ip,
          istate, outcome, previous>>

lexVars == <<stream, buffer, next_token, prev_token>>
drvVars == <<lastCall, out>>
rpnVars == <<operators, rpn, pstate, tokens>>
intVars == <<assignments, values, ip, istate, outcome, previous>>

----------------------------------------------------------------------------
(* Bounds *)

MaxSrcLen == 3     \* longest text of the character-level lexer inputs
MaxLit == 2        \* integer literals of the three-operand inputs are 1..MaxLit
MaxDelimLen == 4   \* longest word sequence of the delimiter inputs
MaxOperandLen == 4 \* longest operand of the single-operand lexer inputs
MaxUnits == 3      \* longest byte or text sequence given to to_int

----------------------------------------------------------------------------
(* Sequence helpers *)

Last(s) == s[Len(s)]
Front(s) == SubSeq(s, 1, Len(s) - 1)
Take(s, n) == SubSeq(s, 1, IF n < Len(s) THEN n ELSE Len(s))
Drop(s, n) == SubSeq(s, n + 1, Len(s))
Min(a, b) == IF a < b THEN a ELSE b

RECURSIVE Pow2(_)
Pow2(n) == IF n = 0 THEN 1 ELSE 2 * Pow2(n - 1)

----------------------------------------------------------------------------
(* The operator table: class Operator *)

OpNames ==
    <<"ENUM_ACCESSOR", "MEMBER_ACCESS", "UNARY_PLUS", "UNARY_MINUS",
      "LOGICAL_NOT", "BITWISE_NOT", "MULTIPLICATION", "DIVISION", "REMAINDER",
      "ADDITION", "SUBTRACTION", "BITWISE_LEFT_SHIFT", "BITWISE_RIGHT_SHIFT",
      "LESS_THAN", "GREATER_THAN", "LESS_THAN_EQUAL", "GREATER_THAN_EQUAL",
      "EQUALS", "NOT_EQUAL", "BITWISE_AND", "BITWISE_XOR", "BITWISE_OR",
      "LOGICAL_AND", "LOGICAL_OR", "TERNARY_ELSE", "TERNARY_CONDITIONAL",
      "GETITEM">>

Op(token, priority, left, arity, multi, expand) ==
    [token |-> token, priority |-> priority, left_associative |-> left,
     arity |-> arity, multiple_arity |-> multi, expand |-> expand]

\* Operator.__init__: expand defaults to (True,) * arity
Operator(name) ==
    CASE name = "ENUM_ACCESSOR" -> Op(<<":", ":">>, 0, TRUE, 2, FALSE, <<TRUE, FALSE>>)
      [] name = "MEMBER_ACCESS" -> Op(<<".">>, 1, TRUE, 2, FALSE, <<TRUE, FALSE>>)
      [] name = "UNARY_PLUS" -> Op(<<"+">>, 2, FALSE, 1, TRUE, <<TRUE>>)
      [] name = "UNARY_MINUS" -> Op(<<"-">>, 2, FALSE, 1, TRUE, <<TRUE>>)
      [] name = "LOGICAL_NOT" -> Op(<<"n", "o", "t">>, 2, FALSE, 1, FALSE, <<TRUE>>)
      [] name = "BITWISE_NOT" -> Op(<<"~">>, 2, FALSE, 1, FALSE, <<TRUE>>)
      [] name = "MULTIPLICATION" -> Op(<<"*">>, 3, TRUE, 2, FALSE, <<TRUE, TRUE>>)
      [] name = "DIVISION" -> Op(<<"/">>, 3, TRUE, 2, FALSE, <<TRUE, TRUE>>)
      [] name = "REMAINDER" -> Op(<<"%">>, 3, TRUE, 2, FALSE, <<TRUE, TRUE>>)
      [] name = "ADDITION" -> Op(<<"+">>, 4, TRUE, 2, FALSE, <<TRUE, TRUE>>)
      [] name = "SUBTRACTION" -> Op(<<"-">>, 4, TRUE, 2, FALSE, <<TRUE, TRUE>>)
      [] name = "BITWISE_LEFT_SHIFT" -> Op(<<"<", "<">>, 5, TRUE, 2, FALSE, <<TRUE, TRUE>>)
      [] name = "BITWISE_RIGHT_SHIFT" -> Op(<<">", ">">>, 5, TRUE, 2, FALSE, <<TRUE, TRUE>>)
      [] name = "LESS_THAN" -> Op(<<"<">>, 6, TRUE, 2, FALSE, <<TRUE, TRUE>>)
      [] name = "GREATER_THAN" -> Op(<<">">>, 6, TRUE, 2, FALSE, <<TRUE, TRUE>>)
      [] name = "LESS_THAN_EQUAL" -> Op(<<"<", "=">>, 6, TRUE, 2, FALSE, <<TRUE, TRUE>>)
      [] name = "GREATER_THAN_EQUAL" -> Op(<<">", "=">>, 6, TRUE, 2, FALSE, <<TRUE, TRUE>>)
      [] name = "EQUALS" -> Op(<<"=", "=">>, 7, TRUE, 2, FALSE, <<TRUE, TRUE>>)
      [] name = "NOT_EQUAL" -> Op(<<"!", "=">>, 7, TRUE, 2, FALSE, <<TRUE, TRUE>>)
      [] name = "BITWISE_AND" -> Op(<<"&">>, 8, TRUE, 2, FALSE, <<TRUE, TRUE>>)
      [] name = "BITWISE_XOR" -> Op(<<"^">>, 9, TRUE, 2, FALSE, <<TRUE, TRUE>>)
      [] name = "BITWISE_OR" -> Op(<<"|">>, 10, TRUE, 2, FALSE, <<TRUE, TRUE>>)
      [] name = "LOGICAL_AND" -> Op(<<"a", "n", "d">>, 11, TRUE, 2, FALSE, <<TRUE, TRUE>>)
      [] name = "LOGICAL_OR" -> Op(<<"o", "r">>, 12, TRUE, 2, FALSE, <<TRUE, TRUE>>)
      [] name = "TERNARY_ELSE" -> Op(<<":">>, 13, FALSE, 2, FALSE, <<FALSE, FALSE>>)
      [] name = "TERNARY_CONDITIONAL" -> Op(<<"?">>, 14, FALSE, 2, FALSE, <<TRUE, FALSE>>)
      [] name = "GETITEM" ->
            Op(<<"_", "_", "g", "e", "t", "i", "t", "e", "m", "_", "_">>,
               1, TRUE, 2, FALSE, <<TRUE, TRUE>>)

\* OPERATORS_BY_NAME: filled by Operator.__init__ in definition order, a later
\* operator with the same token replacing an earlier one; operators with
\* multiple_arity are left out.
RegisteredAt(text) ==
    {i \in 1..Len(OpNames) :
        /\ ~Operator(OpNames[i]).multiple_arity
        /\ Operator(OpNames[i]).token = text}

InOperatorsByName(text) == RegisteredAt(text) # {}

OPERATORS_BY_NAME(text) ==
    OpNames[CHOOSE i \in RegisteredAt(text) : \A j \in RegisteredAt(text) : j <= i]

----------------------------------------------------------------------------
(* Characters *)

UpperCase == {"A", "B", "C", "D", "E", "F", "G", "H", "I", "J", "K", "L", "M",
              "N", "O", "P", "Q", "R", "S", "T", "U", "V", "W", "X", "Y", "Z"}
LowerCase == {"a", "b", "c", "d", "e", "f", "g", "h", "i", "j", "k", "l", "m",
              "n", "o", "p", "q", "r", "s", "t", "u", "v", "w", "x", "y", "z"}
Digits == {"0", "1", "2", "3", "4", "5", "6", "7", "8", "9"}

IDENTIFIER_BYTES == UpperCase \cup LowerCase \cup Digits \cup {"-", "_"}

----------------------------------------------------------------------------
(* Tokens: class Token and its subclasses.  raw is Token._raw; op is        *)
(* OperatorToken.op; value is IntegerToken.value; IdentifierToken.name is   *)
(* raw.                                                                     *)

Tok(type, raw, op, value) == [type |-> type, raw |-> raw, op |-> op, value |-> value]

None == Tok("None", <<>>, "", 0)
OpenParen == Tok("OpenParen", <<"(">>, "", 0)
CloseParen == Tok("CloseParen", <<")">>, "", 0)
OpenBracket == Tok("OpenBracket", <<"[">>, "", 0)
CloseBracket == Tok("CloseBracket", <<"]">>, "", 0)
OperatorToken(op) == Tok("OperatorToken", Operator(op).token, op, 0)
IdentifierToken(name) == Tok("IdentifierToken", name, "", 0)
IntegerToken(raw_str, value) == Tok("IntegerToken", raw_str, "", value)

\* an exception object; what tells the raise sites of one class apart
Exc(class, what) == [type |-> "Exception", class |-> class, what |-> what]

IsException(v) == v.type = "Exception"
IsParenthesis(t) == t.type \in {"OpenParen", "CloseParen"}
IsBracket(t) == t.type \in {"OpenBracket", "CloseBracket"}
IsOperatorToken(t) == t.type = "OperatorToken"

----------------------------------------------------------------------------
(* int(text, base) of Python for text over IDENTIFIER_BYTES: an optional     *)
(* base prefix (when base is 16, 8 or 2) followed by digits of the base,    *)
(* single underscores allowed between digits and after the prefix.          *)

DigitChars == <<"0", "1", "2", "3", "4", "5", "6", "7", "8", "9",
                "a", "b", "c", "d", "e", "f">>
UpperHex == <<"A", "B", "C", "D", "E", "F">>

DigitVal(c) ==
    IF \E i \in 1..Len(DigitChars) : DigitChars[i] = c
    THEN (CHOOSE i \in 1..Len(DigitChars) : DigitChars[i] = c) - 1
    ELSE IF \E i \in 1..Len(UpperHex) : UpperHex[i] = c
    THEN (CHOOSE i \in 1..Len(UpperHex) : UpperHex[i] = c) + 9
    ELSE 99

IsDigit(c, base) == DigitVal(c) < base

\* digits with single underscores between them
RECURSIVE DigitsOK(_, _, _)
DigitsOK(s, base, afterDigit) ==
    IF s = <<>> THEN afterDigit
    ELSE IF s[1] = "_" THEN afterDigit /\ DigitsOK(Tail(s), base, FALSE)
    ELSE IsDigit(s[1], base) /\ DigitsOK(Tail(s), base, TRUE)

RECURSIVE DigitsValue(_, _, _)
DigitsValue(s, base, acc) ==
    IF s = <<>> THEN acc
    ELSE IF s[1] = "_" THEN DigitsValue(Tail(s), base, acc)
    ELSE DigitsValue(Tail(s), base, acc * base + DigitVal(s[1]))

BasePrefix(base) ==
    CASE base = 16 -> {<<"0", "x">>, <<"0", "X">>}
      [] base = 8 -> {<<"0", "o">>, <<"0", "O">>}
      [] base = 2 -> {<<"0", "b">>, <<"0", "B">>}
      [] OTHER -> {}

\* the digit part of text: after a base prefix one underscore may lead
IntBody(text, base) ==
    IF Len(text) >= 2 /\ Take(text, 2) \in BasePrefix(base)
    THEN IF Len(text) >= 3 /\ text[3] = "_" THEN Drop(text, 3) ELSE Drop(text, 2)
    ELSE text

IntParses(text, base) == DigitsOK(IntBody(text, base), base, FALSE)
IntValueDecimal(text, base) == DigitsValue(IntBody(text, base), 10, 0)

\* the number int(text, base) returns when it parses
IntValue(text, base) == DigitsValue(IntBody(text, base), base, 0)

----------------------------------------------------------------------------
(* class Tokenizer.  A tokenizer state is tz = [stream, buffer].            *)

\* Tokenizer._peek_byte: returns [tz, text]
PeekByte(tz, n) ==
    LET bytes_needed == n - Len(tz.buffer)
        b == IF bytes_needed > 0 THEN Take(tz.stream, bytes_needed) ELSE <<>>
        tz2 == [stream |-> Drop(tz.stream, Len(b)), buffer |-> tz.buffer \o b]
    IN  [tz |-> tz2, text |-> Take(tz2.buffer, n)]

\* Tokenizer._pop_byte: returns [tz, text]
PopByte(tz, n) ==
    IF Len(tz.buffer) < n
    THEN [tz |-> [stream |-> Drop(tz.stream, 1), buffer |-> tz.buffer],
          text |-> tz.buffer \o Take(tz.stream, 1)]
    ELSE [tz |-> [stream |-> tz.stream, buffer |-> Drop(tz.buffer, n)],
          text |-> Take(tz.buffer, n)]

\* peek, lines 207-209: ignore leading whitespace
RECURSIVE SkipWhitespace(_)
SkipWhitespace(tz) ==
    LET p == PeekByte(tz, 1)
    IN  IF p.text = <<" ">> \/ p.text = <<"\t">>
        THEN SkipWhitespace(PopByte(p.tz, 1).tz)
        ELSE p.tz

\* peek, lines 214-218: the loop while an operand is being collected
RECURSIVE CollectOperand(_, _)
CollectOperand(tz, operand) ==
    LET p == PeekByte(tz, 3)
    IN  IF Len(p.text) = 0 THEN [tz |-> p.tz, operand |-> operand]
        ELSE IF p.text[1] \in IDENTIFIER_BYTES
        THEN LET q == PopByte(p.tz, 1)
             IN  CollectOperand(q.tz, operand \o q.text)
        ELSE [tz |-> p.tz, operand |-> operand]

\* peek, lines 224-235: a one-character operator
SignToken(c, prev) ==
    IF c = "+"
    THEN IF prev = None \/ IsOperatorToken(prev)
         THEN OperatorToken("UNARY_PLUS") ELSE OperatorToken("ADDITION")
    ELSE IF c = "-"
    THEN IF prev = None \/ IsOperatorToken(prev)
         THEN OperatorToken("UNARY_MINUS") ELSE OperatorToken("SUBTRACTION")
    ELSE OperatorToken(OPERATORS_BY_NAME(<<c>>))

\* peek, lines 248-260: an operand is an integer or an identifier; int()
\* raises ValueError on a prefixed operand that is no number of its base
ClassifyOperand(operand) ==
    LET prefixed(base) ==
            IF IntParses(operand, base)
            THEN IntegerToken(operand, IntValue(operand, base))
            ELSE Exc("ValueError", "int")
    IN  IF Take(operand, 2) = <<"0", "x">> THEN prefixed(16)
        ELSE IF Take(operand, 2) = <<"0", "o">> THEN prefixed(8)
        ELSE IF Take(operand, 2) = <<"0", "b">> THEN prefixed(2)
        ELSE IF IntParses(operand, 10)
        THEN IntegerToken(operand, IntValue(operand, 10))
        ELSE IdentifierToken(operand)

PeekWithoutPop(tz, prev, cached) ==
    LET p == PeekByte(tz, 1)
    IN  [tz |-> p.tz,
         ret |-> IF Len(p.text) = 0 THEN None ELSE IdentifierToken(p.text)]

\* Tokenizer.peek: returns [tz, ret]; ret is a token, None, or the exception
\* raised.  _next_token is tested and never assigned.
Peek(tz, prev, cached) ==
    IF cached # None THEN [tz |-> tz, ret |-> cached]
    ELSE
    LET p == PeekByte(SkipWhitespace(tz), 3)
        c == p.text
        found(ret) == [tz |-> PopByte(p.tz, Len(ret.raw)).tz, ret |-> ret]
    IN  IF Len(c) = 0 THEN [tz |-> p.tz, ret |-> None]
        ELSE IF InOperatorsByName(c) THEN found(OperatorToken(OPERATORS_BY_NAME(c)))
        ELSE IF InOperatorsByName(Take(c, 2))
        THEN found(OperatorToken(OPERATORS_BY_NAME(Take(c, 2))))
        ELSE IF InOperatorsByName(<<c[1]>>) THEN found(SignToken(c[1], prev))
        ELSE IF c[1] = "(" THEN found(OpenParen)
        ELSE IF c[1] = ")" THEN found(CloseParen)
        ELSE IF c[1] = "[" THEN found(OpenBracket)
        ELSE IF c[1] = "]" THEN found(CloseBracket)
        ELSE IF c[1] = " " \/ c[1] = "\t" THEN [tz |-> p.tz, ret |-> None]
        ELSE LET first == PopByte(p.tz, 1)
                 rest == CollectOperand(first.tz, first.text)
             IN  [tz |-> rest.tz, ret |-> ClassifyOperand(rest.operand)]

----------------------------------------------------------------------------
(* A driver of one Tokenizer: peek(), has_next() and next() in any order.   *)

NoCall == [op |-> "none", ret |-> None]
NoOutcome == [kind |-> "none", val |-> None]

SeqsUpTo(S, n) == UNION {[1..k -> S] : k \in 0..n}

LexAlphabet == {"1", "a", "+", "-", "(", ")", "[", "]", " "}
LexSources == SeqsUpTo(LexAlphabet, MaxSrcLen)

\* Tokenizer.__init__
TokenizerInit(text) ==
    /\ source = text
    /\ stream = text
    /\ buffer = <<>>
    /\ next_token = None
    /\ prev_token = None

Idle ==
    /\ lastCall = NoCall
    /\ out = <<>>
    /\ operators = <<>>
    /\ rpn = <<>>
    /\ tokens = <<>>
    /\ assignments = <<>>
    /\ values = <<>>
    /\ ip = 0
    /\ istate = "idle"
    /\ outcome = NoOutcome
    /\ previous = NoOutcome

LexInit ==
    /\ \E text \in LexSources : TokenizerInit(text)
    /\ pstate = "lexing"
    /\ Idle

Called(op, ret) == lastCall' = [op |-> op, ret |-> ret]

\* Tokenizer.peek
TokPeek ==
    /\ pstate = "lexing"
    /\ LET r == Peek([stream |-> stream, buffer |-> buffer], prev_token, next_token)
       IN  /\ stream' = r.tz.stream
           /\ buffer' = r.tz.buffer
           /\ Called("peek", r.ret)
    /\ UNCHANGED <<source, next_token, prev_token, out, rpnVars, intVars>>

\* Tokenizer.has_next: peek() is not None; ret records the token peek() gave
TokHasNext ==
    /\ pstate = "lexing"
    /\ LET r == Peek([stream |-> stream, buffer |-> buffer], prev_token, next_token)
       IN  /\ stream' = r.tz.stream
           /\ buffer' = r.tz.buffer
           /\ Called("has_next", r.ret)
    /\ UNCHANGED <<source, next_token, prev_token, out, rpnVars, intVars>>

\* Tokenizer.next
TokNext ==
    /\ pstate = "lexing"
    /\ LET r == Peek([stream |-> stream, buffer |-> buffer], prev_token, next_token)
       IN  /\ stream' = r.tz.stream
           /\ buffer' = r.tz.buffer
           /\ Called("next", r.ret)
           /\ IF IsException(r.ret)
              THEN UNCHANGED <<prev_token, next_token, out>>
              ELSE /\ prev_token' = r.ret
                   /\ next_token' = None
                   /\ out' = IF r.ret = None THEN out ELSE Append(out, r.ret)
    /\ UNCHANGED <<source, rpnVars, intVars>>

LexNext == TokPeek \/ TokHasNext \/ TokNext

SpecLex == LexInit /\ [][LexNext]_vars

\* the Tokenizer on one operand: numerals with and without a base prefix,
\* and words
OperandAlphabet == {"0", "1", "7", "9", "b", "o", "x"}
OperandSources == SeqsUpTo(OperandAlphabet, MaxOperandLen) \ {<<>>}
WordSources ==
    {<<"o", "r", "d", "e", "r">>,
     <<"o", "r", "i", "e", "n", "t", "a", "t", "i", "o", "n">>,
     <<"a", "n", "d", "r", "o", "i", "d">>,
     <<"n", "o", "t", "e">>,
     <<"n", "o", "r">>, <<"x", "o", "r">>, <<"b", "a", "n", "d">>,
     <<"a", "1">>, <<"a", "_", "b">>, <<"A", "b">>}

OperandInit ==
    /\ \E text \in OperandSources \cup WordSources : TokenizerInit(text)
    /\ pstate = "lexing"
    /\ Idle

SpecOperand == OperandInit /\ [][LexNext]_vars

\* Tokenizer.__iter__ / tokenize: the tokens next() returns until it returns
\* None; an exception of peek() ends the sequence as its last item
RECURSIVE IterTokens(_, _)
IterTokens(tz, prev) ==
    LET r == Peek(tz, prev, None)
    IN  IF r.ret = None THEN <<>>
        ELSE IF IsException(r.ret) THEN <<r.ret>>
        ELSE <<r.ret>> \o IterTokens(r.tz, r.ret)

tokenize(text) == IterTokens([stream |-> text, buffer |-> <<>>], None)

----------------------------------------------------------------------------
(* infix_to_rpn.  A converter state is [operators, rpn, err]: the operator  *)
(* stack, the tokens yielded so far, and the exception raised ("" if none). *)

Rpn(ops, yielded, err) == [operators |-> ops, rpn |-> yielded, err |-> err]

\* lines 296-297 and 303-304: while not isinstance(operators[-1], Open...);
\* operators[-1] of an empty list raises IndexError
RECURSIVE PopUntil(_, _, _)
PopUntil(ops, yielded, open) ==
    IF ops = <<>> THEN Rpn(ops, yielded, "IndexError")
    ELSE IF Last(ops).type = open THEN Rpn(ops, yielded, "")
    ELSE PopUntil(Front(ops), Append(yielded, Last(ops)), open)

\* lines 295-301
CloseParenStep(ops, yielded) ==
    LET st == PopUntil(ops, yielded, "OpenParen")
    IN  IF st.err # "" THEN st
        ELSE IF st.operators # <<>> /\ Last(st.operators).type = "OpenParen"
        THEN Rpn(Front(st.operators), st.rpn, "")
        ELSE st

CloseBracketSilent(ops, yielded) == CloseParenStep(ops, yielded)

\* lines 302-309
CloseBracketStep(ops, yielded) ==
    LET st == PopUntil(ops, yielded, "OpenBracket")
        popped == IF st.operators # <<>> /\ Last(st.operators).type = "OpenBracket"
                  THEN Front(st.operators) ELSE st.operators
    IN  IF st.err # "" THEN st
        ELSE Rpn(popped, Append(st.rpn, OperatorToken("GETITEM")), "")

\* lines 312-314: the top operator is yielded before token is pushed
YieldsFirst(top, token) ==
    \/ Operator(top.op).priority < Operator(token.op).priority
    \/ /\ Operator(top.op).priority = Operator(token.op).priority
       /\ Operator(top.op).left_associative

\* lines 311-315; an OpenBracket on top has no attribute op
RECURSIVE PopOperators(_, _, _)
PopOperators(ops, yielded, token) ==
    IF ops = <<>> \/ Last(ops).type = "OpenParen" THEN Rpn(ops, yielded, "")
    ELSE IF ~IsOperatorToken(Last(ops)) THEN Rpn(ops, yielded, "AttributeError")
    ELSE IF YieldsFirst(Last(ops), token)
    THEN PopOperators(Front(ops), Append(yielded, Last(ops)), token)
    ELSE Rpn(ops, yielded, "")

\* lines 310-316
OperatorStep(ops, yielded, token) ==
    LET st == PopOperators(ops, yielded, token)
    IN  IF st.err # "" THEN st
        ELSE Rpn(Append(st.operators, token), st.rpn, "")

\* lines 320-326
RECURSIVE Drain(_, _)
Drain(ops, yielded) ==
    IF ops = <<>> THEN Rpn(ops, yielded, "")
    ELSE IF IsParenthesis(Last(ops))
    THEN Rpn(Front(ops), yielded, "RuntimeError: Mismatched parenthesis")
    ELSE IF IsBracket(Last(ops))
    THEN Rpn(Front(ops), yielded, "RuntimeError: Mismatched brackets")
    ELSE Drain(Front(ops), Append(yielded, Last(ops)))

\* one iteration of the for loop, lines 290-318
TokenStep(ops, yielded, token) ==
    CASE token.type = "OpenParen" -> Rpn(Append(ops, token), yielded, "")
      [] token.type = "OpenBracket" -> Rpn(Append(ops, token), yielded, "")
      [] token.type = "CloseParen" -> CloseParenStep(ops, yielded)
      [] token.type = "CloseBracket" -> CloseBracketStep(ops, yielded)
      [] token.type = "OperatorToken" -> OperatorStep(ops, yielded, token)
      [] OTHER -> Rpn(ops, Append(yielded, token), "")

\* infix_to_rpn over a whole token sequence; an exception of the tokenizer
\* (the last item of toks) passes through
RECURSIVE RpnFold(_, _)
RpnFold(toks, st) ==
    IF st.err # "" THEN st
    ELSE IF toks = <<>> THEN Drain(st.operators, st.rpn)
    ELSE IF IsException(toks[1]) THEN Rpn(st.operators, st.rpn, toks[1].class)
    ELSE RpnFold(Tail(toks), TokenStep(st.operators, st.rpn, toks[1]))

infix_to_rpn(toks) == RpnFold(toks, Rpn(<<>>, <<>>, ""))

\* parse: Expression(infix_to_rpn(tokenize(expression_str)))
parse(text) == infix_to_rpn(tokenize(text))

----------------------------------------------------------------------------
(* parse() as steps: each step takes the next token from the Tokenizer     *)
(* (the generator chain of line 448) and runs the loop body on it.          *)

Pulled == Peek([stream |-> stream, buffer |-> buffer], prev_token, next_token)

\* Tokenizer.next, lines 268-272, around a peek() that raised nothing
Consume(r) ==
    /\ stream' = r.tz.stream
    /\ buffer' = r.tz.buffer
    /\ prev_token' = r.ret
    /\ next_token' = None

\* the converter moves to st; Expression.__init__ stores the finished tuple
Becomes(st, finished) ==
    /\ operators' = st.operators
    /\ rpn' = st.rpn
    /\ pstate' = IF st.err # "" THEN st.err
                 ELSE IF finished THEN "parsed" ELSE "parsing"
    /\ tokens' = IF st.err = "" /\ finished THEN st.rpn ELSE tokens

\* one turn of the for loop of line 290 on the token pulled
ParseStep ==
    /\ pstate = "parsing"
    /\ Consume(Pulled)
    /\ Becomes(TokenStep(operators, rpn, Pulled.ret), FALSE)
    /\ UNCHANGED <<source, drvVars, intVars>>

ParseOpenParen ==
    /\ Pulled.ret.type = "OpenParen"
    /\ ParseStep

ParseOpenBracket ==
    /\ Pulled.ret.type = "OpenBracket"
    /\ ParseStep

ParseCloseParen ==
    /\ Pulled.ret.type = "CloseParen"
    /\ ParseStep

ParseCloseBracket ==
    /\ Pulled.ret.type = "CloseBracket"
    /\ ParseStep

ParseOperator ==
    /\ Pulled.ret.type = "OperatorToken"
    /\ ParseStep

ParseIdentifier ==
    /\ Pulled.ret.type = "IdentifierToken"
    /\ ParseStep

ParseInteger ==
    /\ Pulled.ret.type = "IntegerToken"
    /\ ParseStep

\* the Tokenizer is exhausted: lines 320-326, then Expression.__init__
ParseEnd ==
    /\ pstate = "parsing"
    /\ Pulled.ret = None
    /\ Consume(Pulled)
    /\ Becomes(Drain(operators, rpn), TRUE)
    /\ UNCHANGED <<source, drvVars, intVars>>

\* the Tokenizer raises: the exception leaves parse()
ParseLexError ==
    /\ pstate = "parsing"
    /\ IsException(Pulled.ret)
    /\ stream' = Pulled.tz.stream
    /\ buffer' = Pulled.tz.buffer
    /\ pstate' = Pulled.ret.class
    /\ UNCHANGED <<source, next_token, prev_token, operators, rpn, tokens,
                   drvVars, intVars>>

----------------------------------------------------------------------------
(* Python values on the value stack: integers, booleans, mappings (dict,    *)
(* keyed by names) and tuples, besides tokens and exception objects.        *)

IntV(n) == [type |-> "int", value |-> n]
BoolV(b) == [type |-> "bool", value |-> b]
DictV(d) == [type |-> "dict", value |-> d]
TupleV(items) == [type |-> "tuple", value |-> items]
\* bytes and bytearray: a sequence of integers in 0..255; str: of characters
BytesV(units) == [type |-> "bytes", value |-> units]
StrV(text) == [type |-> "str", value |-> text]

\* the result of a call: a value returned or an exception raised
Ret(v) == [raised |-> FALSE, v |-> v]
Raise(class, what) == [raised |-> TRUE, v |-> Exc(class, what)]

IsNumber(v) == v.type \in {"int", "bool"}
Num(v) == IF v.type = "bool" THEN (IF v.value THEN 1 ELSE 0) ELSE v.value

\* bool(v): Token defines __len__, so a token is true when its text is not empty
Truthy(v) ==
    CASE v.type = "int" -> v.value # 0
      [] v.type = "bool" -> v.value
      [] v.type = "dict" -> DOMAIN v.value # {}
      [] v.type \in {"tuple", "bytes", "str"} -> v.value # <<>>
      [] v.type = "Exception" -> TRUE
      [] OTHER -> v.raw # <<>>

\* int.from_bytes(bytes(items), 'big') for items that are all in 0..255
RECURSIVE FromBytes(_, _)
FromBytes(items, acc) ==
    IF items = <<>> THEN acc
    ELSE FromBytes(Tail(items), acc * 256 + Num(items[1]))

\* bytes(items) of a tuple: the first item that is no integer raises TypeError,
\* the first integer outside 0..255 raises ValueError
RECURSIVE BytesError(_)
BytesError(items) ==
    IF items = <<>> THEN ""
    ELSE IF ~IsNumber(items[1]) THEN "TypeError"
    ELSE IF Num(items[1]) < 0 \/ Num(items[1]) > 255 THEN "ValueError"
    ELSE BytesError(Tail(items))

\* to_int, lines 17-31 (byteorder is always 'big').  int(v[0]) of a str is
\* int() of a one-character text; int.from_bytes of a str raises TypeError.
to_int(v) ==
    CASE IsNumber(v) -> Ret(v)
      [] v.type = "bytes" ->
            IF Len(v.value) = 0 THEN Ret(IntV(0))
            ELSE IF Len(v.value) = 1 THEN Ret(IntV(v.value[1]))
            ELSE Ret(IntV(FromBytes([i \in 1..Len(v.value) |-> IntV(v.value[i])], 0)))
      [] v.type = "str" ->
            IF Len(v.value) = 0 THEN Ret(IntV(0))
            ELSE IF Len(v.value) = 1
            THEN IF IntParses(v.value, 10) THEN Ret(IntV(IntValue(v.value, 10)))
                 ELSE Raise("ValueError", "int")
            ELSE Raise("TypeError", "from_bytes")
      [] v.type = "dict" ->
            IF DOMAIN v.value = {} THEN Ret(IntV(0))
            ELSE Raise("ValueError", "Cannot convert")
      [] v.type = "tuple" ->
            IF BytesError(v.value) = "TypeError" THEN Raise("ValueError", "Cannot convert")
            ELSE IF BytesError(v.value) = "ValueError" THEN Raise("ValueError", "bytes range")
            ELSE IF Len(v.value) = 0 THEN Ret(IntV(0))
            ELSE IF Len(v.value) = 1 THEN Ret(IntV(Num(v.value[1])))
            ELSE Ret(IntV(FromBytes(v.value, 0)))
      [] OTHER -> Raise("ValueError", "Cannot convert")

\* hash(v) raises TypeError for a dict and for a tuple that holds one
RECURSIVE Hashable(_)
Hashable(v) ==
    CASE v.type = "dict" -> FALSE
      [] v.type = "tuple" -> \A i \in 1..Len(v.value) : Hashable(v.value[i])
      [] OTHER -> TRUE

\* a[name] for a name (a str): the dicts of the model are keyed by names
SubscriptName(a, name) ==
    IF a.type = "dict"
    THEN IF name \in DOMAIN a.value THEN Ret(a.value[name])
         ELSE Raise("KeyError", "key")
    ELSE Raise("TypeError", "subscript")

\* a[b] for a value b
Subscript(a, b) ==
    CASE a.type = "dict" ->
            IF Hashable(b) THEN Raise("KeyError", "key") ELSE Raise("TypeError", "unhashable")
      [] a.type = "tuple" ->
            IF ~IsNumber(b) THEN Raise("TypeError", "index")
            ELSE IF Num(b) >= 0 /\ Num(b) < Len(a.value) THEN Ret(a.value[Num(b) + 1])
            ELSE IF Num(b) < 0 /\ -Num(b) <= Len(a.value)
            THEN Ret(a.value[Len(a.value) + Num(b) + 1])
            ELSE Raise("IndexError", "index")
      [] OTHER -> Raise("TypeError", "subscript")

\* a == b: tokens and exceptions compare by identity, and no object is on
\* the value stack twice
RECURSIVE PyEq(_, _)
PyEq(a, b) ==
    IF IsNumber(a) /\ IsNumber(b) THEN Num(a) = Num(b)
    ELSE IF a.type = "dict" /\ b.type = "dict" THEN a.value = b.value
    ELSE IF a.type = "tuple" /\ b.type = "tuple"
    THEN /\ Len(a.value) = Len(b.value)
         /\ \A i \in 1..Len(a.value) : PyEq(a.value[i], b.value[i])
    ELSE FALSE

IntCompare(rel, x, y) ==
    CASE rel = "<" -> x < y
      [] rel = ">" -> x > y
      [] rel = "<=" -> x <= y
      [] rel = ">=" -> x >= y

\* a < b and the like: numbers by value, tuples by their first differing
\* items, anything else raises TypeError
RECURSIVE PyOrder(_, _, _)
PyOrder(rel, a, b) ==
    IF IsNumber(a) /\ IsNumber(b) THEN Ret(BoolV(IntCompare(rel, Num(a), Num(b))))
    ELSE IF a.type = "tuple" /\ b.type = "tuple"
    THEN LET n == Min(Len(a.value), Len(b.value))
             differ == {i \in 1..n : ~PyEq(a.value[i], b.value[i])}
         IN  IF differ = {}
             THEN Ret(BoolV(IntCompare(rel, Len(a.value), Len(b.value))))
             ELSE LET i == CHOOSE k \in differ : \A j \in differ : k <= j
                  IN  PyOrder(rel, a.value[i], b.value[i])
    ELSE Raise("TypeError", "order")

\* two's-complement bit operations on unbounded integers
RECURSIVE BitAnd(_, _)
BitAnd(x, y) ==
    IF x = 0 \/ y = 0 THEN 0
    ELSE IF x = -1 THEN y
    ELSE IF y = -1 THEN x
    ELSE 2 * BitAnd(x \div 2, y \div 2) + (x % 2) * (y % 2)

BitNot(x) == -x - 1
BitOr(x, y) == BitNot(BitAnd(BitNot(x), BitNot(y)))
BitXor(x, y) == BitAnd(BitOr(x, y), BitNot(BitAnd(x, y)))

\* x // y and x % y of Python for y # 0
FloorDiv(x, y) == IF y > 0 THEN x \div y ELSE (-x) \div (-y)
FloorMod(x, y) == x - y * FloorDiv(x, y)

\* the lambdas of lines 45-60 that apply to_int to both operands
IntOperation(op, x, y) ==
    CASE op = "MULTIPLICATION" -> Ret(IntV(x * y))
      [] op = "DIVISION" ->
            IF y = 0 THEN Raise("ZeroDivisionError", "") ELSE Ret(IntV(FloorDiv(x, y)))
      [] op = "REMAINDER" ->
            IF y = 0 THEN Raise("ZeroDivisionError", "") ELSE Ret(IntV(FloorMod(x, y)))
      [] op = "SUBTRACTION" -> Ret(IntV(x - y))
      [] op = "BITWISE_LEFT_SHIFT" ->
            IF y < 0 THEN Raise("ValueError", "negative shift count")
            ELSE Ret(IntV(x * Pow2(y)))
      [] op = "BITWISE_RIGHT_SHIFT" ->
            IF y < 0 THEN Raise("ValueError", "negative shift count")
            ELSE Ret(IntV(x \div Pow2(y)))
      [] op = "BITWISE_AND" -> Ret(IntV(BitAnd(x, y)))
      [] op = "BITWISE_XOR" -> Ret(IntV(BitXor(x, y)))
      [] op = "BITWISE_OR" -> Ret(IntV(BitOr(x, y)))

\* &, ^ and | of two bools give a bool
BoolResult(op, r, a, b) ==
    IF /\ ~r.raised
       /\ op \in {"BITWISE_AND", "BITWISE_XOR", "BITWISE_OR"}
       /\ a.type = "bool" /\ b.type = "bool"
    THEN Ret(BoolV(r.v.value = 1))
    ELSE r

IntOperators == {"MULTIPLICATION", "DIVISION", "REMAINDER", "SUBTRACTION",
                 "BITWISE_LEFT_SHIFT", "BITWISE_RIGHT_SHIFT", "BITWISE_AND",
                 "BITWISE_XOR", "BITWISE_OR"}

\* Operator.execute: the third item of each operator, lines 39-65
Execute(op, args) ==
    LET a == args[1]
        b == args[2]
        ia == to_int(a)
        ib == to_int(b)
    IN  CASE op \in {"ENUM_ACCESSOR", "MEMBER_ACCESS"} ->
                IF b.type = "IdentifierToken" THEN SubscriptName(a, b.raw)
                ELSE Raise("AttributeError", "name")
          [] op = "UNARY_PLUS" -> Ret(a)
          [] op = "UNARY_MINUS" -> IF ia.raised THEN ia ELSE Ret(IntV(-Num(ia.v)))
          [] op = "LOGICAL_NOT" -> Ret(BoolV(~Truthy(a)))
          [] op = "BITWISE_NOT" -> IF ia.raised THEN ia ELSE Ret(IntV(BitNot(Num(ia.v))))
          [] op \in IntOperators ->
                IF ia.raised THEN ia
                ELSE IF ib.raised THEN ib
                ELSE BoolResult(op, IntOperation(op, Num(ia.v), Num(ib.v)), ia.v, ib.v)
          [] op = "ADDITION" ->
                IF IsNumber(a) /\ IsNumber(b) THEN Ret(IntV(Num(a) + Num(b)))
                ELSE IF a.type = "tuple" /\ b.type = "tuple"
                THEN Ret(TupleV(a.value \o b.value))
                ELSE Raise("TypeError", "+")
          [] op = "LESS_THAN" -> PyOrder("<", a, b)
          [] op = "GREATER_THAN" -> PyOrder(">", a, b)
          [] op = "LESS_THAN_EQUAL" -> PyOrder("<=", a, b)
          [] op = "GREATER_THAN_EQUAL" -> PyOrder(">=", a, b)
          [] op = "EQUALS" -> Ret(BoolV(PyEq(a, b)))
          [] op = "NOT_EQUAL" -> Ret(BoolV(~PyEq(a, b)))
          [] op = "LOGICAL_AND" -> Ret(IF Truthy(a) THEN b ELSE a)
          [] op = "LOGICAL_OR" -> Ret(IF Truthy(a) THEN a ELSE b)
          [] op = "TERNARY_ELSE" -> Ret(TupleV(<<a, b>>))
          [] op = "TERNARY_CONDITIONAL" -> Subscript(b, BoolV(~Truthy(a)))
          [] op = "GETITEM" -> Subscript(a, b)

----------------------------------------------------------------------------
(* class Expression *)

get_value_lenient(token, assigned) ==
    IF token.type = "IntegerToken" THEN Ret(IntV(token.value))
    ELSE IF token.type = "IdentifierToken" /\ token.raw \in DOMAIN assigned
    THEN Ret(assigned[token.raw])
    ELSE Ret(token)

\* Expression.get_value, lines 342-355
get_value(token, assigned) ==
    CASE token.type = "IntegerToken" -> Ret(IntV(token.value))
      [] token.type = "IdentifierToken" ->
            IF token.raw \notin DOMAIN assigned
            THEN Raise("KeyError", "Unknown identifier")
            ELSE Ret(assigned[token.raw])
      [] OTHER -> Ret(token)

\* Expression.to_str, lines 421-442, which interpret calls first (line 360):
\* it raises NotImplementedError at an operator that finds fewer than arity
\* items on its stack.  depth is the length of its stack.
RECURSIVE ToStrRaises(_, _)
ToStrRaises(toks, depth) ==
    IF toks = <<>> THEN FALSE
    ELSE IF IsOperatorToken(toks[1])
    THEN \/ depth < Operator(toks[1].op).arity
         \/ ToStrRaises(Tail(toks), depth - Operator(toks[1].op).arity + 1)
    ELSE ToStrRaises(Tail(toks), depth + 1)

\* lines 371-377: the arguments of operator op taken from the last arity
\* items; returns [raised, args, exception], exception being the last
\* argument that is an exception object (None if there is none)
RECURSIVE Arguments(_, _, _, _)
Arguments(expand, items, assigned, acc) ==
    IF expand = <<>> \/ items = <<>> THEN acc
    ELSE LET r == IF expand[1] THEN get_value(items[1], assigned) ELSE Ret(items[1])
         IN  IF r.raised THEN [raised |-> TRUE, args |-> acc.args, exception |-> r.v]
             ELSE Arguments(Tail(expand), Tail(items), assigned,
                            [raised |-> FALSE, args |-> Append(acc.args, r.v),
                             exception |-> IF IsException(r.v) THEN r.v
                                           ELSE acc.exception])

\* lines 381: an exception among the arguments is passed on in place of the
\* operator's result, except by the ternary else
Propagates(op, exception) == exception # None /\ op # "TERNARY_ELSE"

\* lines 386-394: the exceptions of these operators become values
Deferring(op) == op \in {"GETITEM", "MEMBER_ACCESS"}

\* lines 366-399: the loop body for an operator token; returns
\* [raised, values, exception]
OperatorBody(op, stack, assigned) ==
    LET arity == Operator(op).arity
        below == SubSeq(stack, 1, Len(stack) - arity)
        a == Arguments(Operator(op).expand, SubSeq(stack, Len(stack) - arity + 1, Len(stack)),
                       assigned, [raised |-> FALSE, args |-> <<>>, exception |-> None])
        x == Execute(op, a.args)
        result(vs) == [raised |-> FALSE, values |-> vs, exception |-> None]
        raises(e) == [raised |-> TRUE, values |-> stack, exception |-> e]
    IN  IF a.raised THEN raises(a.exception)
        ELSE IF Propagates(op, a.exception) THEN result(Append(below, a.exception))
        ELSE IF Deferring(op)
        THEN result(Append(below, IF x.raised /\ x.v.class = "KeyError"
                                  THEN Exc("KeyError", "values[-2][values[-1]]")
                                  ELSE x.v))
        ELSE IF x.raised THEN raises(x.v)
        ELSE IF op = "TERNARY_CONDITIONAL"
        THEN LET g == get_value(x.v, assigned)
             IN  IF g.raised THEN raises(g.v) ELSE result(Append(below, g.v))
        ELSE result(Append(below, x.v))

\* lines 402-416: what interpret returns or raises once the loop has ended
Returned(v) == [kind |-> "return", val |-> v]
Raised(e) == [kind |-> "raise", val |-> e]

FinalTop(stack, assigned) ==
    IF stack = <<>> THEN Returned(None)
    ELSE IF IsException(Last(stack)) THEN Raised(Last(stack))
    ELSE Returned(Last(stack))

Final(stack, assigned) ==
    IF Len(stack) # 1 THEN Raised(Exc("RuntimeError", "Unexpected extra tokens"))
    ELSE LET ret == IF stack[1].type = "IdentifierToken"
                    THEN get_value(stack[1], assigned)
                    ELSE Ret(stack[1])
         IN  IF ret.raised \/ IsException(ret.v) THEN Raised(ret.v)
             ELSE Returned(ret.v)

\* the for loop of lines 365-401 from token i on, and the end of lines 402-416
RECURSIVE Loop(_, _, _, _)
Loop(toks, i, stack, assigned) ==
    IF i > Len(toks) THEN Final(stack, assigned)
    ELSE IF IsOperatorToken(toks[i])
    THEN LET r == OperatorBody(toks[i].op, stack, assigned)
         IN  IF r.raised THEN Raised(r.exception)
             ELSE Loop(toks, i + 1, r.values, assigned)
    ELSE Loop(toks, i + 1, Append(stack, toks[i]), assigned)

\* Expression.interpret as a function of the tokens and the assignments
interpret(toks, assigned) ==
    IF ToStrRaises(toks, 0)
    THEN Raised(Exc("NotImplementedError", "arity"))
    ELSE Loop(toks, 1, <<>>, assigned)

----------------------------------------------------------------------------
(* The inputs of parse() and interpret() *)

\* words separated by single spaces
RECURSIVE Join(_)
Join(words) ==
    IF words = <<>> THEN <<>>
    ELSE IF Len(words) = 1 THEN words[1]
    ELSE words[1] \o <<" ">> \o Join(Tail(words))

Lit(n) == <<DigitChars[n + 1]>>
InParens(text) == <<"(">> \o text \o <<")">>

\* C7: the binary operators over integer literals, flat and parenthesised
ArithWords == {<<"*">>, <<"/">>, <<"%">>, <<"+">>, <<"-">>, <<"<", "<">>,
               <<">", ">">>, <<"&">>, <<"^">>, <<"|">>}
Literals == {Lit(n) : n \in 1..MaxLit}
LiteralsAndZero == Literals \cup {Lit(0)}

ArithSources ==
    {Join(<<a, o, b>>) : a \in LiteralsAndZero, o \in ArithWords, b \in LiteralsAndZero}
    \cup UNION {{Join(<<a, o[1], b, o[2], c>>),
                 Join(<<InParens(Join(<<a, o[1], b>>)), o[2], c>>),
                 Join(<<a, o[1], InParens(Join(<<b, o[2], c>>))>>)} :
                a \in Literals, b \in Literals, c \in Literals,
                o \in ArithWords \X ArithWords}

\* the conditional c ? t : e
Branches == {<<"2">>, <<"u">>, <<"a">>, <<"u", " ", "+", " ", "1">>,
             <<"x", ":", ":", "m">>, <<"x", ".", "m">>, <<"1", " ", "/", " ", "0">>}
Conditions == {<<"0">>, <<"1">>, <<"a">>}

TernarySources ==
    {Join(<<c, <<"?">>, t, <<":">>, e>>) :
        c \in Conditions, t \in Branches, e \in Branches}

\* two conditionals in a row, c1 ? 2 : c2 ? 3 : 4, bare and with the second
\* one in parentheses
Chain(c1, c2) ==
    Join(<<c1, <<"?">>, <<"2">>, <<":">>, c2, <<"?">>, <<"3">>, <<":">>, <<"4">>>>)
ChainInParens(c1, c2) ==
    Join(<<c1, <<"?">>, <<"2">>, <<":">>,
           InParens(Join(<<c2, <<"?">>, <<"3">>, <<":">>, <<"4">>>>))>>)
ChainSources ==
    {Chain(c1, c2) : c1 \in Conditions, c2 \in Conditions}
    \cup {ChainInParens(c1, c2) : c1 \in Conditions, c2 \in Conditions}

\* and, or
LogicSources ==
    {Join(<<l, o, r>>) :
        l \in {<<"0">>, <<"1">>, <<"a">>, <<"x">>, <<"x", ".", "m">>},
        o \in {<<"a", "n", "d">>, <<"o", "r">>},
        r \in {<<"u">>, <<"1">>, <<"a">>}}

\* delimiters in any order
DelimWords == {<<"(">>, <<")">>, <<"[">>, <<"]">>, <<"1">>, <<"+">>}
DelimSources == {Join(w) : w \in SeqsUpTo(DelimWords, MaxDelimLen)}

\* the examples of the documentation, and a literal the lexer rejects
ExampleSources ==
    {<<"-", "4", " ", "+", " ", "3">>,
     <<"4", " ", "-", " ", "-", "3">>,
     <<"(", "-", "4", ")">>,
     <<"a", "[", "-", "1", "]">>,
     <<"a", "[", "i", " ", "+", " ", "1", "]">>,
     <<"x", "[", "1", "]">>,
     <<"5">>, <<"(", "5", ")">>, <<"a">>, <<"u">>, <<"x">>,
     <<"1", " ", ":", " ", "2">>,
     <<"n", "o", "t", " ", "a">>,
     <<"~", "a">>,
     <<"a", " ", "=", "=", " ", "1">>,
     <<"0", "x", "g", " ", "+", " ", "1">>}

Sources ==
    ArithSources \cup TernarySources \cup ChainSources \cup LogicSources
    \cup DelimSources \cup ExampleSources

\* the assignments interpret() is called with
Name(c) == <<c>>
AssignmentChoices ==
    {<<>>,
     (Name("a") :> IntV(1)) @@ (Name("i") :> IntV(0)) @@ (Name("x") :> DictV(<<>>)),
     (Name("a") :> IntV(0)) @@ (Name("x") :> DictV(Name("m") :> IntV(2)))}

StaleStack == values

\* line 364: values = []
EmptyStack == <<>>

----------------------------------------------------------------------------
(* interpret() as steps on one Expression, called any number of times      *)

\* interpret is entered: line 360 renders the expression, line 364 makes the
\* value stack
InterpretCall ==
    /\ pstate = "parsed"
    /\ istate \in {"idle", "done"}
    /\ previous' = outcome
    /\ \E assigned \in AssignmentChoices :
          /\ assignments' = assigned
          /\ IF ToStrRaises(tokens, 0)
             THEN /\ istate' = "done"
                  /\ outcome' = Raised(Exc("NotImplementedError", "arity"))
                  /\ UNCHANGED <<values, ip>>
             ELSE /\ istate' = "running"
                  /\ outcome' = NoOutcome
                  /\ values' = EmptyStack
                  /\ ip' = 1
    /\ UNCHANGED <<source, lexVars, drvVars, rpnVars>>

\* lines 366-399
InterpretOperator ==
    /\ istate = "running"
    /\ ip <= Len(tokens)
    /\ IsOperatorToken(tokens[ip])
    /\ LET r == OperatorBody(tokens[ip].op, values, assignments)
       IN  IF r.raised
           THEN /\ istate' = "done"
                /\ outcome' = Raised(r.exception)
                /\ UNCHANGED <<values, ip>>
           ELSE /\ values' = r.values
                /\ ip' = ip + 1
                /\ UNCHANGED <<istate, outcome>>
    /\ UNCHANGED <<source, lexVars, drvVars, rpnVars, assignments, previous>>

\* lines 400-401
InterpretOperand ==
    /\ istate = "running"
    /\ ip <= Len(tokens)
    /\ ~IsOperatorToken(tokens[ip])
    /\ values' = Append(values, tokens[ip])
    /\ ip' = ip + 1
    /\ UNCHANGED <<source, lexVars, drvVars, rpnVars, assignments, istate,
                   outcome, previous>>

\* lines 402-416
InterpretFinish ==
    /\ istate = "running"
    /\ ip > Len(tokens)
    /\ istate' = "done"
    /\ outcome' = Final(values, assignments)
    /\ UNCHANGED <<source, lexVars, drvVars, rpnVars, assignments, values, ip,
                   previous>>

Init ==
    /\ \E text \in Sources : TokenizerInit(text)
    /\ pstate = "parsing"
    /\ Idle

Next ==
    \/ ParseOpenParen
    \/ ParseOpenBracket
    \/ ParseCloseParen
    \/ ParseCloseBracket
    \/ ParseOperator
    \/ ParseIdentifier
    \/ ParseInteger
    \/ ParseEnd
    \/ ParseLexError
    \/ InterpretCall
    \/ InterpretOperator
    \/ InterpretOperand
    \/ InterpretFinish

Spec == Init /\ [][Next]_vars

----------------------------------------------------------------------------
(* to_int() called on one value: values holds the argument, outcome what    *)
(* the call returned or raised                                              *)

ByteUnits == {0, 1, 97, 255}
TextUnits == {"a", "5"}
ToIntInputs ==
    {IntV(n) : n \in -2..2} \cup {BoolV(b) : b \in BOOLEAN}
    \cup {BytesV(u) : u \in SeqsUpTo(ByteUnits, MaxUnits)}
    \cup {StrV(t) : t \in SeqsUpTo(TextUnits, MaxUnits)}

ToIntInit ==
    /\ TokenizerInit(<<>>)
    /\ pstate = "to_int"
    /\ lastCall = NoCall
    /\ out = <<>>
    /\ operators = <<>>
    /\ rpn = <<>>
    /\ tokens = <<>>
    /\ assignments = <<>>
    /\ \E v \in ToIntInputs : values = <<v>>
    /\ ip = 0
    /\ istate = "idle"
    /\ outcome = NoOutcome
    /\ previous = NoOutcome

ToIntCall ==
    /\ pstate = "to_int"
    /\ istate = "idle"
    /\ LET r == to_int(values[1])
       IN  outcome' = IF r.raised THEN Raised(r.v) ELSE Returned(r.v)
    /\ istate' = "done"
    /\ UNCHANGED <<source, lexVars, drvVars, rpnVars, assignments, values, ip,
                   previous>>

SpecToInt == ToIntInit /\ [][ToIntCall]_vars

----------------------------------------------------------------------------
(* Claims *)

Word(c) == <<c>>
Conditional(c, t, e) == Join(<<c, Word("?"), t, Word(":"), e>>)
Finished == istate = "done"
UnknownIdentifier == Raised(Exc("KeyError", "Unknown identifier"))

\* the value of a sub-expression written alone: a single literal or name
\* resolves as get_value resolves it
ValueOf(text, assigned) ==
    LET p == parse(text)
        g == get_value(p.rpn[1], assigned)
    IN  IF Len(p.rpn) = 1
        THEN (IF g.raised THEN Raised(g.v) ELSE Returned(g.v))
        ELSE interpret(p.rpn, assigned)

\* C1: interpret of `c ? t : e` gives what the selected branch alone gives,
\* whatever the other branch holds: t's value when c is truthy, e's value
\* when c is falsy.
C1_TernaryShortCircuit ==
    \A c \in Conditions, t \in Branches, e \in Branches :
        LET cond == ValueOf(c, assignments)
        IN  (/\ Finished
             /\ source = Conditional(c, t, e)
             /\ cond.kind = "return")
            => outcome = ValueOf(IF Truthy(cond.val) THEN t ELSE e, assignments)

\* C2: a failing `ns::member` lookup does not raise where it is executed (the
\* failure goes on the value stack), so `c ? t : x::m` with c truthy and x a
\* mapping without m gives t's value.
MissingMember ==
    /\ Name("x") \in DOMAIN assignments
    /\ assignments[Name("x")].type = "dict"
    /\ Name("m") \notin DOMAIN assignments[Name("x")].value

RaisedAtEnumAccessor ==
    /\ Finished
    /\ outcome = Raised(Exc("KeyError", "key"))
    /\ ip >= 1 /\ ip <= Len(tokens)
    /\ tokens[ip] = OperatorToken("ENUM_ACCESSOR")

C2_NamespaceFailureDeferred ==
    /\ ~RaisedAtEnumAccessor
    /\ \A t \in Branches :
        (/\ Finished
         /\ MissingMember
         /\ source = Conditional(Word("1"), t, <<"x", ":", ":", "m">>))
        => outcome = ValueOf(t, assignments)

\* delimiters properly nested: every closer meets an opener of its own kind
RECURSIVE WellNested(_, _)
WellNested(toks, open) ==
    IF toks = <<>> THEN open = <<>>
    ELSE IF toks[1].type \in {"OpenParen", "OpenBracket"}
    THEN WellNested(Tail(toks), Append(open, toks[1].type))
    ELSE IF toks[1].type = "CloseParen"
    THEN open # <<>> /\ Last(open) = "OpenParen" /\ WellNested(Tail(toks), Front(open))
    ELSE IF toks[1].type = "CloseBracket"
    THEN open # <<>> /\ Last(open) = "OpenBracket" /\ WellNested(Tail(toks), Front(open))
    ELSE WellNested(Tail(toks), open)

\* C3: parse returns an Expression only for properly nested delimiters, and
\* no parenthesis or bracket is among the tokens of a returned Expression.
C3_MismatchedDelimitersFail ==
    pstate = "parsed" =>
        /\ WellNested(tokenize(source), <<>>)
        /\ \A i \in 1..Len(tokens) : ~IsParenthesis(tokens[i]) /\ ~IsBracket(tokens[i])


\* the proper prefixes of a sequence, and the sequence itself
IsPrefix(p, q) == Len(p) <= Len(q) /\ SubSeq(q, 1, Len(p)) = p

Lookahead == {"peek", "has_next"}

\* C4: peek() and has_next() consume nothing: a call that follows a peek()
\* or has_next() sees the token that call saw, and the tokens next() has
\* returned are always the first tokens of the input.
C4_PeekNonConsuming ==
    /\ [][(lastCall.op \in Lookahead /\ lastCall'.op # "none" /\ lastCall' # lastCall)
            => lastCall'.ret = lastCall.ret]_vars
    /\ [](pstate = "lexing" => IsPrefix(out, tokenize(source)))

IsSign(t) == IsOperatorToken(t) /\ t.raw \in {Word("+"), Word("-")}
BinarySign(t) == t.op \in {"ADDITION", "SUBTRACTION"}
UnarySign(t) == t.op \in {"UNARY_PLUS", "UNARY_MINUS"}

\* C5: next() returns a `+` or `-` as the binary operator when the token
\* before it is `)`, `]`, an identifier or an integer, and as the unary
\* operator when the token before it is `(`, `[`, an operator, or there is
\* none.  (Only steps of next() that follow no token-consuming peek count:
\* out is then the start of the input's token sequence.)
C5_SignDisambiguation ==
    [][(/\ pstate = "lexing"
        /\ lastCall'.op = "next"
        /\ out' = Append(out, lastCall'.ret)
        /\ IsPrefix(out', tokenize(source))
        /\ IsSign(lastCall'.ret))
       => IF prev_token.type \in {"CloseParen", "CloseBracket", "IdentifierToken",
                                  "IntegerToken"}
          THEN BinarySign(lastCall'.ret)
          ELSE UnarySign(lastCall'.ret)]_vars

TopIsOpen == operators # <<>> /\ Last(operators).type \in {"OpenParen", "OpenBracket"}

\* C6: an operator token that arrives while an open parenthesis or an open
\* bracket is on top of the operator stack is pushed and nothing is popped;
\* `a[i + 1]` converts to a, i, 1, +, GETITEM.
C6_OperatorOnOpenDelimiter ==
    /\ [][(ParseOperator /\ TopIsOpen)
            => /\ operators' = Append(operators, prev_token')
               /\ rpn' = rpn
               /\ pstate' = "parsing"]_vars
    /\ []((source = <<"a", "[", "i", " ", "+", " ", "1", "]">> /\ pstate # "parsing")
            => /\ pstate = "parsed"
               /\ tokens = <<IdentifierToken(Word("a")), IdentifierToken(Word("i")),
                             IntegerToken(Word("1"), 1), OperatorToken("ADDITION"),
                             OperatorToken("GETITEM")>>)


(* The reference evaluation of C7, on the infix tokens: an item is a number, *)
(* a binary operator or a parenthesis.                                      *)

ArithOperators == {"MULTIPLICATION", "DIVISION", "REMAINDER", "ADDITION", "SUBTRACTION",
                   "BITWISE_LEFT_SHIFT", "BITWISE_RIGHT_SHIFT", "BITWISE_AND",
                   "BITWISE_XOR", "BITWISE_OR"}

Number(n) == [k |-> "num", n |-> n, op |-> ""]
Sym(k, op) == [k |-> k, n |-> 0, op |-> op]
Item(t) ==
    CASE t.type = "IntegerToken" -> Number(t.value)
      [] t.type = "OperatorToken" /\ t.op \in ArithOperators -> Sym("op", t.op)
      [] t.type = "OpenParen" -> Sym("(", "")
      [] t.type = "CloseParen" -> Sym(")", "")
      [] OTHER -> Sym("other", "")
Items(toks) == [i \in 1..Len(toks) |-> Item(toks[i])]

RefValue(n) == [ok |-> "value", n |-> n, class |-> ""]
RefError(class) == [ok |-> "error", n |-> 0, class |-> class]
Malformed == [ok |-> "malformed", n |-> 0, class |-> ""]

Alternates(items) ==
    /\ Len(items) % 2 = 1
    /\ \A i \in 1..Len(items) : items[i].k = (IF i % 2 = 1 THEN "num" ELSE "op")

\* number op number op ... : the leftmost operator of the numerically lowest
\* priority is applied first
RECURSIVE RefFlat(_)
RefFlat(items) ==
    IF ~Alternates(items) THEN Malformed
    ELSE IF Len(items) = 1 THEN RefValue(items[1].n)
    ELSE LET at == {i \in 1..Len(items) : items[i].k = "op"}
             lowest == CHOOSE q \in {Operator(items[i].op).priority : i \in at} :
                          \A i \in at : q <= Operator(items[i].op).priority
             i == CHOOSE j \in at :
                     /\ Operator(items[j].op).priority = lowest
                     /\ \A m \in at : Operator(items[m].op).priority = lowest => j <= m
             r == Execute(items[i].op, <<IntV(items[i - 1].n), IntV(items[i + 1].n)>>)
         IN  IF r.raised THEN RefError(r.v.class)
             ELSE RefFlat(SubSeq(items, 1, i - 2) \o <<Number(r.v.value)>>
                          \o SubSeq(items, i + 2, Len(items)))

\* the innermost parenthesised group is evaluated first
RECURSIVE RefEval(_)
RefEval(items) ==
    LET closes == {j \in 1..Len(items) : items[j].k = ")"}
        opens == {j \in 1..Len(items) : items[j].k = "("}
    IN  IF closes = {} /\ opens = {} THEN RefFlat(items)
        ELSE IF closes = {} THEN Malformed
        ELSE LET j == CHOOSE c \in closes : \A d \in closes : c <= d
                 before == {o \in opens : o < j}
             IN  IF before = {} THEN Malformed
                 ELSE LET i == CHOOSE o \in before : \A d \in before : d <= o
                          r == RefFlat(SubSeq(items, i + 1, j - 1))
                      IN  IF r.ok # "value" THEN r
                          ELSE RefEval(SubSeq(items, 1, i - 1) \o <<Number(r.n)>>
                                       \o SubSeq(items, j + 1, Len(items)))

Reference == RefEval(Items(tokenize(source)))
AgreesWithReference ==
    IF Reference.ok = "value" THEN outcome = Returned(IntV(Reference.n))
    ELSE outcome.kind = "raise" /\ outcome.val.class = Reference.class

\* C7: for every well-formed expression over integer literals, the binary
\* arithmetic operators and parentheses, interpret returns the value of the
\* reference evaluation (lower priority number first, equal priorities left
\* to right, parenthesised groups first), and fails where it has no value.
C7_PrecedenceAndAssociativity ==
    (Finished /\ Reference.ok # "malformed") => AgreesWithReference

\* every expression of C7 that has an operator agrees with the reference
HasOperator == \E i \in 1..Len(tokens) : IsOperatorToken(tokens[i])
ArithmeticWithOperatorAgrees ==
    (Finished /\ Reference.ok # "malformed" /\ HasOperator) => AgreesWithReference

LogicWords == {<<"a", "n", "d">>, <<"o", "r">>}
LogicLefts == {<<"0">>, <<"1">>, <<"a">>, <<"x">>, <<"x", ".", "m">>}
Unassigned(r) == r \notin DOMAIN assignments

\* C8: `l and r` and `l or r` with r a name that has no assignment fail with
\* the unknown-identifier failure whatever value l has, a falsy l of `and`
\* and a truthy l of `or` included.
C8_NoShortCircuit ==
    \A l \in LogicLefts, o \in LogicWords, r \in {<<"u">>, <<"a">>} :
        (/\ Finished
         /\ source = Join(<<l, o, r>>)
         /\ Unassigned(r)
         /\ ValueOf(l, assignments).kind = "return")
        => outcome = UnknownIdentifier

C8_Witness ==
    /\ Finished
    /\ source = <<"0", " ", "a", "n", "d", " ", "u">>
    /\ assignments = <<>>
    /\ outcome = UnknownIdentifier

\* C9: before and after every call of interpret the token sequence is as
\* parse() made it, and a call's outcome is the outcome of interpret on a
\* freshly parsed copy with the same assignments, whatever calls came before.
C9_InterpretStateless ==
    (pstate = "parsed" /\ istate # "running")
        => LET fresh == parse(source).rpn
           IN  /\ tokens = fresh
               /\ (Finished => outcome = interpret(fresh, assignments))

C9_Witness ==
    /\ Finished
    /\ previous # NoOutcome
    /\ previous # outcome
    /\ outcome = interpret(parse(source).rpn, assignments)

\* C10: when interpret returns, the result is an integer, a byte sequence, a
\* mapping or a boolean, never a token.
C10_ReturnsResolvedValue ==
    (Finished /\ outcome.kind = "return")
        => outcome.val.type \in {"int", "bool", "dict", "bytes"}


(* Numerals, as the claims on operands describe them *)

LiteralBase(text) ==
    IF Take(text, 2) = <<"0", "x">> THEN 16
    ELSE IF Take(text, 2) = <<"0", "o">> THEN 8
    ELSE IF Take(text, 2) = <<"0", "b">> THEN 2
    ELSE 10
LiteralDigits(text) == IF LiteralBase(text) = 10 THEN text ELSE Drop(text, 2)
ValidLiteral(text) ==
    /\ LiteralDigits(text) # <<>>
    /\ \A i \in 1..Len(LiteralDigits(text)) :
          DigitVal(LiteralDigits(text)[i]) < LiteralBase(text)

\* the number the digits denote in the base
RECURSIVE Positional(_, _, _)
Positional(digits, base, acc) ==
    IF digits = <<>> THEN acc
    ELSE Positional(Tail(digits), base, acc * base + DigitVal(digits[1]))

Denoted(text) == Positional(LiteralDigits(text), LiteralBase(text), 0)

\* the first call on a Tokenizer
FirstCall == pstate = "lexing" /\ lastCall = NoCall /\ lastCall'.op # "none"

\* C11: an operand that is a valid decimal literal or a valid 0x, 0o or 0b
\* literal is lexed as an IntegerToken whose value is the number its digits
\* denote in that base and whose raw text is the operand as written.
C11_IntegerLiteralValues ==
    [][(FirstCall /\ source \in OperandSources /\ ValidLiteral(source))
        => lastCall'.ret = IntegerToken(source, Denoted(source))]_vars

C11_Witness ==
    /\ source = <<"0", "x", "1", "0">>
    /\ lastCall.op = "next"
    /\ out = <<IntegerToken(source, 16)>>

\* C12: every operand is lexed as an IntegerToken or as an IdentifierToken
\* with the operand as its text and the lexer never fails on it; an operand
\* that starts with 0x, 0o or 0b and is no numeral of that base is lexed as
\* an identifier.
C12_OperandClassificationTotal ==
    [][(FirstCall /\ source \in OperandSources)
        => /\ lastCall'.ret.type \in {"IntegerToken", "IdentifierToken"}
           /\ lastCall'.ret.raw = source
           /\ (LiteralBase(source) # 10 /\ ~ValidLiteral(source))
                 => lastCall'.ret = IdentifierToken(source)]_vars


\* the numeric value of a unit of a sequence: a byte is its own value, a
\* character its code
CodeOf(c) == CASE c = "a" -> 97 [] c = "5" -> 53
UnitsOf(v) ==
    IF v.type = "bytes" THEN v.value
    ELSE [i \in 1..Len(v.value) |-> CodeOf(v.value[i])]

\* the big-endian unsigned integer of units in 0..255
RECURSIVE BigEndian(_, _)
BigEndian(units, acc) ==
    IF units = <<>> THEN acc
    ELSE BigEndian(Tail(units), acc * 256 + units[1])

\* C13: to_int returns an integer unchanged; for a byte sequence and for a
\* text it never fails and returns the big-endian unsigned integer of the
\* units (0 for the empty sequence, the unit's value for a single unit).
C13_ToInt ==
    (pstate = "to_int" /\ istate = "done")
        => LET v == values[1]
           IN  IF IsNumber(v) THEN outcome = Returned(v)
               ELSE outcome = Returned(IntV(BigEndian(UnitsOf(v), 0)))

\* the byte sequences alone are coerced as C13 says
BytesToInt ==
    (pstate = "to_int" /\ istate = "done" /\ values[1].type # "str")
        => LET v == values[1]
           IN  IF IsNumber(v) THEN outcome = Returned(v)
               ELSE outcome = Returned(IntV(BigEndian(UnitsOf(v), 0)))


(* The step of interpret on an operator token *)

AtOperator == istate = "running" /\ ip <= Len(tokens) /\ IsOperatorToken(tokens[ip])
Arity == Operator(tokens[ip].op).arity
Operands == SubSeq(values, Len(values) - Arity + 1, Len(values))
Below == SubSeq(values, 1, Len(values) - Arity)
ErrorAmongOperands == \E i \in 1..Len(Operands) : IsException(Operands[i])
RightmostError ==
    Operands[CHOOSE i \in 1..Len(Operands) :
                /\ IsException(Operands[i])
                /\ \A j \in (i + 1)..Len(Operands) : ~IsException(Operands[j])]
UnknownOperand ==
    \E i \in 1..Len(Operands) :
        /\ Operator(tokens[ip].op).expand[i]
        /\ Operands[i].type = "IdentifierToken"
        /\ Operands[i].raw \notin DOMAIN assignments

\* C14: an operator other than `:` that finds a deferred error among its
\* operands replaces the operands by that error (the rightmost one) and
\* leaves the stack below them unchanged; `:` replaces its two operands by
\* the pair of them, errors included.
C14_DeferredErrorPropagation ==
    [][(AtOperator /\ ErrorAmongOperands)
        => IF tokens[ip].op = "TERNARY_ELSE"
           THEN values' = Append(Below, TupleV(Operands))
           ELSE /\ values' = Append(Below, RightmostError)
                /\ istate' = "running"]_vars

\* the step is as C14 says whenever every operand that is a name has a value
PropagationWithKnownOperands ==
    [][(AtOperator /\ ErrorAmongOperands /\ ~UnknownOperand)
        => IF tokens[ip].op = "TERNARY_ELSE"
           THEN values' = Append(Below, TupleV(Operands))
           ELSE /\ values' = Append(Below, RightmostError)
                /\ istate' = "running"]_vars


Malformed_expression == Raised(Exc("RuntimeError", "Unexpected extra tokens"))
Consumed == Finished /\ ip > Len(tokens)

\* C15: once every postfix token is consumed, interpret fails with the
\* malformed-expression failure unless the stack holds exactly one item,
\* raises that item when it is a deferred error, and returns a value only
\* from a stack of exactly one item.
C15_FinalStackCheck ==
    Consumed
        => /\ Len(values) # 1 => outcome = Malformed_expression
           /\ (Len(values) = 1 /\ IsException(values[1])) => outcome = Raised(values[1])
           /\ outcome.kind = "return" => Len(values) = 1

C15_Witness ==
    /\ Consumed
    /\ source = <<"1", " ", "1">>
    /\ Len(values) = 2
    /\ outcome = Malformed_expression


\* what c1 ? 2 : (c2 ? 3 : 4) selects
Selected(c1, c2) ==
    IF Truthy(c1) THEN IntV(2) ELSE IF Truthy(c2) THEN IntV(3) ELSE IntV(4)

\* C16: c1 ? 2 : c2 ? 3 : 4 without parentheses is converted as
\* c1 ? 2 : (c2 ? 3 : 4) is, and interpret returns 2 when c1 is truthy, 3
\* when c1 is falsy and c2 truthy, 4 when both are falsy.
C16_TernaryRightAssociative ==
    \A c1 \in Conditions, c2 \in Conditions :
        LET v1 == ValueOf(c1, assignments)
            v2 == ValueOf(c2, assignments)
        IN  (/\ Finished
             /\ source = Chain(c1, c2)
             /\ v1.kind = "return" /\ v2.kind = "return")
            => /\ tokens = parse(ChainInParens(c1, c2)).rpn
               /\ outcome = Returned(Selected(v1.val, v2.val))

\* with the second conditional in parentheses the chain does select so
ParenthesisedChainSelects ==
    \A c1 \in Conditions, c2 \in Conditions :
        LET v1 == ValueOf(c1, assignments)
            v2 == ValueOf(c2, assignments)
        IN  (/\ Finished
             /\ source = ChainInParens(c1, c2)
             /\ v1.kind = "return" /\ v2.kind = "return")
            => outcome = Returned(Selected(v1.val, v2.val))


IsOperand(t) == t.type \in {"IntegerToken", "IdentifierToken"}
OperandsOf(toks) == SelectSeq(toks, IsOperand)
Count(toks, t) == Cardinality({i \in 1..Len(toks) : toks[i] = t})
Converted == pstate = "parsed" /\ istate = "idle"

\* C17: in a successful conversion the integer and identifier tokens of the
\* postfix sequence are those of the input in the same order, every operator
\* token of the input occurs in the postfix sequence as often as in the
\* input, and there is one GETITEM operator per `]` of the input.
C17_PostfixPreservesOperands ==
    Converted
        => LET input == tokenize(source)
           IN  /\ OperandsOf(tokens) = OperandsOf(input)
               /\ \A i \in 1..Len(input) :
                     IsOperatorToken(input[i])
                        => Count(tokens, input[i]) = Count(input, input[i])
               /\ \A i \in 1..Len(tokens) :
                     (IsOperatorToken(tokens[i]) /\ tokens[i].op # "GETITEM")
                        => Count(input, tokens[i]) = Count(tokens, tokens[i])
               /\ Count(tokens, OperatorToken("GETITEM")) = Count(input, CloseBracket)

C17_Witness ==
    /\ Converted
    /\ source = <<"x", "[", "1", "]">>
    /\ tokens = <<IdentifierToken(Word("x")), IntegerToken(Word("1"), 1),
                  OperatorToken("GETITEM")>>


\* the input characters not yet consumed
Remaining == Len(stream) + Len(buffer)
Blank(text) == \A i \in 1..Len(text) : text[i] \in {" ", "\t"}
Exhausted == stream = <<>> /\ buffer = <<>>
EndReported == lastCall = [op |-> "next", ret |-> None]

\* C18: every next() that returns a token has consumed at least one input
\* character, so iteration ends; an empty or blank input gives no token and
\* no failure; and once next() has reported the end, peek(), has_next() and
\* next() report the end ever after.
C18_LexingTerminates ==
    /\ [][(pstate = "lexing" /\ lastCall'.op = "next" /\ lastCall'.ret # None)
            => Remaining' < Remaining]_vars
    /\ []((pstate = "lexing" /\ Blank(source)) => (lastCall.ret = None /\ out = <<>>))
    /\ []((pstate = "lexing" /\ EndReported) => Exhausted)
    /\ [][(pstate = "lexing" /\ Exhausted)
            => (Exhausted' /\ (lastCall' # lastCall => lastCall'.ret = None))]_vars

C18_Witness ==
    /\ pstate = "lexing"
    /\ EndReported
    /\ Len(out) = 2
    /\ Len(source) = MaxSrcLen


\* a run of letters, digits and underscores that starts with a letter
IdentifierRun(text) ==
    /\ text # <<>>
    /\ text[1] \in UpperCase \cup LowerCase
    /\ \A i \in 1..Len(text) : text[i] \in UpperCase \cup LowerCase \cup Digits \cup {"_"}

StartsWithWordOperator(text) ==
    \E w \in {<<"o", "r">>, <<"a", "n", "d">>, <<"n", "o", "t">>} : Take(text, Len(w)) = w

\* C19: an input that is one run of identifier characters starting with a
\* letter is lexed as one IdentifierToken whose name is the whole run, also
\* when the run begins with the spelling of `or`, `and` or `not`.
C19_IdentifiersLexedWhole ==
    [][(FirstCall /\ IdentifierRun(source)) => lastCall'.ret = IdentifierToken(source)]_vars

\* runs that do not begin with the spelling of a word operator are lexed whole
OtherNamesLexedWhole ==
    [][(FirstCall /\ IdentifierRun(source) /\ ~StartsWithWordOperator(source))
        => lastCall'.ret = IdentifierToken(source)]_vars

====
